---- MODULE Spec2Model ----
(***************************************************************************)
(* Model of createPersister (examples/vue/persister/src/persister.ts).     *)
(*                                                                         *)
(* createPersister returns an async wrapper around a query function.  An   *)
(* invocation of the wrapper is a process that runs from one await to the  *)
(* next; every action below is one such synchronous run.  The storage      *)
(* medium, the clock and the query function are the environment.           *)
(*                                                                         *)
(* JavaScript values are modelled as strings ("undefined", "null", "NaN",  *)
(* "0", "d1", "d2"); an object is a TLA+ record and a property the object  *)
(* does not have is a field the record does not have.  A string held by    *)
(* the storage medium is modelled by what JSON.parse makes of it.          *)
(***************************************************************************)
EXTENDS Integers, Sequences, FiniteSets, TLC

\* ---------------------------------------------------------------- bounds
MaxAge  == 0            \* the maxAge option of the wrapper, in clock units
\* The records found in storage were written at time 1.  The first call is
\* made when they are exactly MaxAge old and the clock runs one unit further,
\* so that they are read at the ages MaxAge and MaxAge + 1.
StartTime == MaxAge + 1
MaxTime   == MaxAge + 2

Invocations == {1, 2}
QueryKeys   == {"k1", "k2"}
Busters     == {"v1", "v2"}
\* what queryClient.getQueryState(key)?.data may be at the call
CachedVals  == {"undefined", "0", "d1"}
\* what the query function may resolve to
FetchVals   == {"d2", "NaN", "undefined"}
\* timestamps of the records found in storage at the start
InitTimestamps == {1}

VARIABLES
    storage,    \* "null" when the storage option is null/undefined, else "medium"
    store,      \* the content of the storage medium: key -> stored string
    now,        \* Date.now()
    inv         \* the invocations of the wrapper

vars == <<storage, store, now, inv>>

\* ------------------------------------------------------- JavaScript values
\* line 77: `!queryState?.data` tests truthiness, not presence
Truthy(v) == v \notin {"undefined", "null", "NaN", "0", "false", ""}

\* line 7/74: hashKey(context.queryKey), deterministic, one hash per key here
hashKey(k) == IF k = "k1" THEN "h1" ELSE "h2"

Hashes == {hashKey(k) : k \in QueryKeys}

\* reading a property of an object: undefined when the object lacks it
StateData(state) == IF "data" \in DOMAIN state THEN state.data ELSE "undefined"

\* ------------------------------------------------------------ stored strings
\* getItem yields null/undefined, or a string: the empty string, a string
\* JSON.parse rejects, the text 'null', or the JSON text of an object.
Absent   == [t |-> "absent"]
Empty    == [t |-> "empty"]
Garbage  == [t |-> "garbage"]
NullText == [t |-> "null"]

\* what JSON.stringify does to a data value nested in the record:
\* NaN is written as null (a key whose value is undefined is dropped, below)
JsonData(v) == IF v = "NaN" THEN "null" ELSE v

\* an encoder that leaves the data out of the state
serializeWithoutData(pq) ==
    LET st == pq.state
        jst == [f \in DOMAIN st \ {"data"} |-> st[f]]
    IN  [t |-> "json", rec |-> [pq EXCEPT !.state = jst]]

\* lines 69, 109: serialize = JSON.stringify
serialize(pq) ==
    LET st == pq.state
        kept == IF st.data = "undefined" THEN DOMAIN st \ {"data"} ELSE DOMAIN st
        jst == [f \in kept |-> IF f = "data" THEN JsonData(st.data) ELSE st[f]]
    IN  [t |-> "json", rec |-> [pq EXCEPT !.state = jst]]

\* lines 70, 80: deserialize = JSON.parse; it throws on a malformed string
deserializeThrows(s) == s.t = "garbage"
JsNull == [isNull |-> TRUE]
deserialize(s) == IF s.t = "json" THEN s.rec ELSE JsNull

\* line 79: `if (storedData)`: null, undefined and '' are falsy
StoredDataPresent(s) == s.t \notin {"absent", "empty"}

\* line 82: reading .timestamp of null throws a TypeError
ReadTimestampThrows(pq) == pq = JsNull

\* line 82: `if (persistedQuery.timestamp)`
HasTimestampAlways(pq) == TRUE
HasTimestamp(pq) == "timestamp" \in DOMAIN pq /\ pq.timestamp # 0

\* line 83: with no timestamp the difference is NaN and the test is false
ExpiredEarly(pq, t, maxAge) ==
    "timestamp" \in DOMAIN pq /\ t - pq.timestamp >= maxAge
ExpiredLate(pq, t, maxAge) ==
    "timestamp" \in DOMAIN pq /\ t - pq.timestamp > maxAge + 1
Expired(pq, t, maxAge) ==
    "timestamp" \in DOMAIN pq /\ t - pq.timestamp > maxAge

\* line 84
BustedNever(pq, b) == FALSE
Busted(pq, b) == ("buster" \notin DOMAIN pq) \/ pq.buster # b

\* line 77: the lookup is attempted
ShouldLookupAlways(cached, st) == ~Truthy(cached)
ShouldLookup(cached, st) == ~Truthy(cached) /\ st # "null"

\* line 106
ShouldPersistAlways(st) == TRUE
ShouldPersistNever(st) == FALSE
ShouldPersist(st) == st # "null"

\* lines 109-128: the record handed to serialize
PersistedQueryNoBuster(result, key, hash, t, b) ==
    [ state |-> [ data |-> result, dataUpdateCount |-> 0, dataUpdatedAt |-> t,
                  status |-> "success", error |-> "null", errorUpdateCount |-> 0,
                  errorUpdatedAt |-> 0, fetchFailureCount |-> 0,
                  fetchFailureReason |-> "null", fetchMeta |-> "null",
                  fetchStatus |-> "idle", isInvalidated |-> FALSE ],
      queryKey |-> key, queryHash |-> hash, timestamp |-> t, buster |-> "" ]
PersistedQueryNoTimestamp(result, key, hash, t, b) ==
    [ state |-> [ data |-> result, dataUpdateCount |-> 0, dataUpdatedAt |-> t,
                  status |-> "success", error |-> "null", errorUpdateCount |-> 0,
                  errorUpdatedAt |-> 0, fetchFailureCount |-> 0,
                  fetchFailureReason |-> "null", fetchMeta |-> "null",
                  fetchStatus |-> "idle", isInvalidated |-> FALSE ],
      queryKey |-> key, queryHash |-> hash, buster |-> b ]
PersistedQuery(result, key, hash, t, b) ==
    [ state |-> [ data |-> result, dataUpdateCount |-> 0, dataUpdatedAt |-> t,
                  status |-> "success", error |-> "null", errorUpdateCount |-> 0,
                  errorUpdatedAt |-> 0, fetchFailureCount |-> 0,
                  fetchFailureReason |-> "null", fetchMeta |-> "null",
                  fetchStatus |-> "idle", isInvalidated |-> FALSE ],
      queryKey |-> key, queryHash |-> hash, timestamp |-> t, buster |-> b ]

\* a record as above whose timestamp property is missing
WithoutTimestamp(pq) == [f \in DOMAIN pq \ {"timestamp"} |-> pq[f]]

\* ------------------------------------------------------------ invocations
Op(name, key) == [op |-> name, key |-> key]

Pending == [kind |-> "pending", value |-> "undefined", from |-> "none"]
Resolved(v, src) == [kind |-> "resolved", value |-> v, from |-> src]
Rejected(e, src) == [kind |-> "rejected", value |-> e, from |-> src]

NoRecord == [none |-> TRUE]

Idle ==
    [ pc |-> "idle", queryKey |-> "none", queryHash |-> "none", buster |-> "none",
      cached |-> "undefined", storedData |-> Absent, ops |-> <<>>,
      fetch |-> "none", queryFnResult |-> "undefined",
      remove |-> "none", setItem |-> "none", setAt |-> 0, startAt |-> 0,
      persisted |-> NoRecord, written |-> Absent, built |-> <<>>,
      result |-> Pending ]

\* what the storage medium may hold under the hash of k before the first
\* invocation: nothing, strings that are no record, a record without a
\* timestamp, and records written earlier under either buster
InitItems(k) ==
    {Absent, Empty, Garbage, NullText}
    \cup {serialize(WithoutTimestamp(PersistedQuery("d1", k, hashKey(k), 1, "v1")))}
    \cup {serialize(PersistedQuery("d1", k, hashKey(k), ts, b)) :
              ts \in InitTimestamps, b \in Busters}

\* the second key starts empty or with one record
InitItemsOther(k) ==
    {Absent, serialize(PersistedQuery("d1", k, hashKey(k), 1, "v1"))}

Init ==
    /\ storage \in {"null", "medium"}
    /\ store \in [Hashes -> UNION {InitItems(k) : k \in QueryKeys}]
    /\ store[hashKey("k1")] \in InitItems("k1")
    /\ store[hashKey("k2")] \in InitItemsOther("k2")
    /\ storage = "null" => \A k \in QueryKeys :
           store[hashKey(k)] = serialize(PersistedQuery("d1", k, hashKey(k), 1, "v1"))
    /\ now = StartTime
    /\ inv = [i \in Invocations |-> Idle]

\* invocations are numbered in the order of the calls
Earlier(i) == {j \in Invocations : j < i}

\* lines 73-78 and 104: the call runs up to its first await.  The value
\* getItem will resolve to is the one the medium holds when it is asked.
Invoke(i, k, b, c) ==
    /\ inv[i].pc = "idle"
    /\ \A j \in Earlier(i) : inv[j].pc # "idle"
    /\ LET h == hashKey(k)
           base == [inv[i] EXCEPT !.queryKey = k, !.queryHash = h,
                                  !.buster = b, !.cached = c,
                                  !.startAt = now]
       IN  IF ShouldLookup(c, storage)
           THEN inv' = [inv EXCEPT ![i] =
                    [base EXCEPT !.pc = "getItem",
                                 !.storedData = store[h],
                                 !.ops = <<Op("getItem", h)>>]]
           ELSE inv' = [inv EXCEPT ![i] =
                    [base EXCEPT !.pc = "queryFn",
                                 !.fetch = "pending",
                                 !.ops = <<Op("queryFn", h)>>]]
    /\ UNCHANGED <<storage, store, now>>

\* line 78: the awaited getItem rejects (or threw): the wrapper rejects
GetItemRejects(i) ==
    /\ inv[i].pc = "getItem"
    /\ inv' = [inv EXCEPT ![i].pc = "done",
                          ![i].result = Rejected("StorageError", "getItem")]
    /\ UNCHANGED <<storage, store, now>>

\* lines 79, 104: nothing (truthy) stored: go on to the query function
StoredDataAbsent(i) ==
    /\ inv[i].pc = "getItem"
    /\ ~StoredDataPresent(inv[i].storedData)
    /\ inv' = [inv EXCEPT ![i].pc = "queryFn", ![i].fetch = "pending",
                  ![i].ops = Append(@, Op("queryFn", inv[i].queryHash))]
    /\ UNCHANGED <<storage, store, now>>

\* lines 80-82: JSON.parse throws, or reading a property of null throws
DeserializeThrows(i) ==
    /\ inv[i].pc = "getItem"
    /\ StoredDataPresent(inv[i].storedData)
    /\ \/ deserializeThrows(inv[i].storedData)
       \/ /\ ~deserializeThrows(inv[i].storedData)
          /\ ReadTimestampThrows(deserialize(inv[i].storedData))
    /\ inv' = [inv EXCEPT ![i].pc = "done",
                  ![i].result =
                      Rejected(IF deserializeThrows(inv[i].storedData)
                               THEN "SyntaxError" ELSE "TypeError", "deserialize")]
    /\ UNCHANGED <<storage, store, now>>

\* the stored string decodes to an object
Decodes(i) ==
    /\ StoredDataPresent(inv[i].storedData)
    /\ ~deserializeThrows(inv[i].storedData)
    /\ ~ReadTimestampThrows(deserialize(inv[i].storedData))

MustDiscardAlways(pq, t, b) == TRUE
\* lines 82-86, 98-99: the record has no timestamp, is expired or is busted
MustDiscard(pq, t, b) ==
    IF HasTimestamp(pq) THEN Expired(pq, t, MaxAge) \/ Busted(pq, b) ELSE TRUE

\* lines 82-86, 98-99: removeItem is called and awaited
Discard(i) ==
    /\ inv[i].pc = "getItem"
    /\ Decodes(i)
    /\ MustDiscard(deserialize(inv[i].storedData), now, inv[i].buster)
    /\ inv' = [inv EXCEPT ![i].pc = "removeItem", ![i].remove = "pending",
                  ![i].ops = Append(@, Op("removeItem", inv[i].queryHash))]
    /\ UNCHANGED <<storage, store, now>>

\* a wrapper that refreshes the timestamp of the record it serves
RehydrateAndTouch(i) ==
    /\ inv[i].pc = "getItem"
    /\ Decodes(i)
    /\ LET pq == deserialize(inv[i].storedData)
       IN  /\ ~MustDiscard(pq, now, inv[i].buster)
           /\ store' = [store EXCEPT ![inv[i].queryHash] =
                            [t |-> "json", rec |-> [pq EXCEPT !.timestamp = now + 1]]]
           /\ inv' = [inv EXCEPT ![i].pc = "done",
                  ![i].ops = Append(@, Op("build", inv[i].queryHash)),
                  ![i].built = Append(@, [queryKey |-> inv[i].queryKey,
                                          queryHash |-> inv[i].queryHash,
                                          state |-> pq.state]),
                  ![i].result = Resolved(StateData(pq.state), "persisted")]
    /\ UNCHANGED <<storage, now>>

\* lines 87-97: the record is valid: build the query and return its data
Rehydrate(i) ==
    /\ inv[i].pc = "getItem"
    /\ Decodes(i)
    /\ LET pq == deserialize(inv[i].storedData)
       IN  /\ ~MustDiscard(pq, now, inv[i].buster)
           /\ inv' = [inv EXCEPT ![i].pc = "done",
                  ![i].ops = Append(@, Op("build", inv[i].queryHash)),
                  ![i].built = Append(@, [queryKey |-> inv[i].queryKey,
                                          queryHash |-> inv[i].queryHash,
                                          state |-> pq.state]),
                  ![i].result = Resolved(StateData(pq.state), "persisted")]
    /\ UNCHANGED <<storage, store, now>>

\* a wrapper that clears the medium instead of removing its own entry
RemoveItemResolvesClear(i) ==
    /\ inv[i].pc = "removeItem"
    /\ store' = [h \in DOMAIN store |-> Absent]
    /\ inv' = [inv EXCEPT ![i].pc = "queryFn", ![i].remove = "done",
                  ![i].fetch = "pending",
                  ![i].ops = Append(@, Op("queryFn", inv[i].queryHash))]
    /\ UNCHANGED <<storage, now>>

\* lines 86/99 and 104: removeItem has removed the entry; the wrapper resumes
\* and calls the query function
RemoveItemResolves(i) ==
    /\ inv[i].pc = "removeItem"
    /\ store' = [store EXCEPT ![inv[i].queryHash] = Absent]
    /\ inv' = [inv EXCEPT ![i].pc = "queryFn", ![i].remove = "done",
                  ![i].fetch = "pending",
                  ![i].ops = Append(@, Op("queryFn", inv[i].queryHash))]
    /\ UNCHANGED <<storage, now>>

\* lines 86/99: removeItem rejects (or threw): the wrapper rejects
RemoveItemRejects(i) ==
    /\ inv[i].pc = "removeItem"
    /\ inv' = [inv EXCEPT ![i].pc = "done",
                  ![i].remove = "failed",
                  ![i].result = Rejected("StorageError", "removeItem")]
    /\ UNCHANGED <<storage, store, now>>

\* a wrapper that calls the query function a second time after a failure
QueryFnRejectsRetry(i) ==
    /\ inv[i].pc = "queryFn"
    /\ Len(SelectSeq(inv[i].ops, LAMBDA o : o.op = "queryFn")) < 2
    /\ inv' = [inv EXCEPT ![i].ops = Append(@, Op("queryFn", inv[i].queryHash))]
    /\ UNCHANGED <<storage, store, now>>

\* a wrapper that swallows the failure and answers with what it read
QueryFnRejectsFallback(i) ==
    /\ inv[i].pc = "queryFn"
    /\ inv' = [inv EXCEPT ![i].pc = "done", ![i].fetch = "failed",
                  ![i].result = Resolved("undefined", "persisted")]
    /\ UNCHANGED <<storage, store, now>>

\* line 104: the query function rejects (or threw): the wrapper rejects
QueryFnRejects(i) ==
    /\ inv[i].pc = "queryFn"
    /\ inv' = [inv EXCEPT ![i].pc = "done",
                  ![i].fetch = "failed",
                  ![i].result = Rejected("FetchError", "queryFn")]
    /\ UNCHANGED <<storage, store, now>>

\* lines 104-132: the query function resolves to v.  With a storage medium
\* setItem is called with the serialized record and is NOT awaited: either
\* the call throws (a synchronous medium) and the wrapper rejects, or it
\* returns and the wrapper resolves to v while the write is in flight.
QueryFnResolves(i, v, throws) ==
    /\ inv[i].pc = "queryFn"
    /\ LET pq == PersistedQuery(v, inv[i].queryKey, inv[i].queryHash, now,
                                inv[i].buster)
           got == [inv[i] EXCEPT !.pc = "done",
                                 !.fetch = "ok", !.queryFnResult = v]
           called == [got EXCEPT !.ops = Append(@, Op("setItem", inv[i].queryHash)),
                                 !.persisted = pq, !.written = serialize(pq),
                                 !.setAt = now]
       IN  IF ShouldPersist(storage)
           THEN IF throws
                THEN inv' = [inv EXCEPT ![i] =
                        [called EXCEPT !.setItem = "threw",
                                       !.result = Rejected("StorageError", "setItem")]]
                ELSE inv' = [inv EXCEPT ![i] =
                        [called EXCEPT !.setItem = "pending",
                                       !.result = Resolved(v, "queryFn")]]
           ELSE /\ ~throws
                /\ inv' = [inv EXCEPT ![i] =
                        [got EXCEPT !.result = Resolved(v, "queryFn")]]
    /\ UNCHANGED <<storage, store, now>>

\* a medium that keeps the entry it already holds
SetItemCompletesIfAbsent(i) ==
    /\ inv[i].setItem = "pending"
    /\ store' = [store EXCEPT ![inv[i].queryHash] =
                     IF @ = Absent THEN inv[i].written ELSE @]
    /\ inv' = [inv EXCEPT ![i].setItem = "done"]
    /\ UNCHANGED <<storage, now>>

\* line 107: the write started by setItem lands in the medium
SetItemCompletes(i) ==
    /\ inv[i].setItem = "pending"
    /\ store' = [store EXCEPT ![inv[i].queryHash] = inv[i].written]
    /\ inv' = [inv EXCEPT ![i].setItem = "done"]
    /\ UNCHANGED <<storage, now>>

\* line 107: the promise setItem returned rejects; nobody holds it
SetItemRejects(i) ==
    /\ inv[i].setItem = "pending"
    /\ inv' = [inv EXCEPT ![i].setItem = "rejected"]
    /\ UNCHANGED <<storage, store, now>>

\* the clock advances
Tick ==
    /\ now < MaxTime
    /\ now' = now + 1
    /\ UNCHANGED <<storage, store, inv>>

Next ==
    \/ \E i \in Invocations, k \in QueryKeys, b \in Busters, c \in CachedVals :
           Invoke(i, k, b, c)
    \/ \E i \in Invocations : GetItemRejects(i)
    \/ \E i \in Invocations : StoredDataAbsent(i)
    \/ \E i \in Invocations : DeserializeThrows(i)
    \/ \E i \in Invocations : Discard(i)
    \/ \E i \in Invocations : Rehydrate(i)
    \/ \E i \in Invocations : RemoveItemResolves(i)
    \/ \E i \in Invocations : RemoveItemRejects(i)
    \/ \E i \in Invocations : QueryFnRejects(i)
    \/ \E i \in Invocations, v \in FetchVals, throws \in BOOLEAN :
           QueryFnResolves(i, v, throws)
    \/ \E i \in Invocations : SetItemCompletes(i)
    \/ \E i \in Invocations : SetItemRejects(i)
    \/ Tick

Spec == Init /\ [][Next]_vars

\* The runs in which a storage medium is configured, no storage operation
\* fails and the query function always resolves.  The event loop resumes
\* every invocation whose awaited operation has completed, and every
\* operation started completes: each step of a started invocation is
\* weakly fair.  Calls of the wrapper and the clock are not.
LiveInit == Init /\ storage = "medium"

NextLive ==
    \/ \E i \in Invocations, k \in QueryKeys, b \in Busters, c \in CachedVals :
           Invoke(i, k, b, c)
    \/ \E i \in Invocations : StoredDataAbsent(i)
    \/ \E i \in Invocations : DeserializeThrows(i)
    \/ \E i \in Invocations : Discard(i)
    \/ \E i \in Invocations : Rehydrate(i)
    \/ \E i \in Invocations : RemoveItemResolves(i)
    \/ \E i \in Invocations, v \in FetchVals : QueryFnResolves(i, v, FALSE)
    \/ \E i \in Invocations : SetItemCompletes(i)
    \/ Tick

Fairness ==
    \A i \in Invocations :
        /\ WF_vars(StoredDataAbsent(i))
        /\ WF_vars(DeserializeThrows(i))
        /\ WF_vars(Discard(i))
        /\ WF_vars(Rehydrate(i))
        /\ WF_vars(RemoveItemResolves(i))
        /\ WF_vars(\E v \in FetchVals : QueryFnResolves(i, v, FALSE))
        /\ WF_vars(SetItemCompletes(i))

LiveSpec == LiveInit /\ [][NextLive]_vars /\ Fairness


\* ------------------------------------------------------------ vocabulary
HasOp(r, name) == \E n \in DOMAIN r.ops : r.ops[n].op = name
CountOp(r, name) == Cardinality({n \in DOMAIN r.ops : r.ops[n].op = name})
OpNames(r) == [n \in DOMAIN r.ops |-> r.ops[n].op]

\* the invocation i resumes after a getItem that did not fail
ResumesAfterGet(i) ==
    /\ inv[i].pc = "getItem"
    /\ inv'[i].pc # "getItem"
    /\ inv'[i].result.from # "getItem"

\* a stored string that is the text of a record object
IsRecord(s) == s.t = "json"
RecordHasTimestamp(s) == IsRecord(s) /\ "timestamp" \in DOMAIN s.rec

\* the steps that follow a removeItem call: once the removal is done the entry
\* is gone and the query function has been called, once
AfterRemoval(i) ==
    /\ (inv[i].pc = "removeItem" /\ inv'[i].remove = "done") =>
           /\ store'[inv[i].queryHash] = Absent
           /\ inv'[i].pc = "queryFn"
           /\ OpNames(inv'[i]) = <<"getItem", "removeItem", "queryFn">>
    /\ inv'[i].remove = "done" => CountOp(inv'[i], "queryFn") = 1
    /\ inv'[i].remove # "none" => ~HasOp(inv'[i], "build")
    /\ inv'[i].remove # "none" => inv'[i].result.from # "persisted"

\* ------------------------------------------------------------------ C1
\* C1: an invocation with no in-memory value and a storage medium reads the
\* entry under the query hash; when what it read is a record of age at most
\* maxAge whose buster is the configured one, the invocation resolves to the
\* record's state.data and the query function is never called.
C1_FreshRecordIsServed ==
    [][\A i \in Invocations :
         /\ (inv[i].pc = "idle" /\ inv'[i].pc # "idle"
                 /\ inv'[i].cached = "undefined" /\ storage = "medium") =>
                /\ inv'[i].pc = "getItem"
                /\ inv'[i].storedData = store[hashKey(inv'[i].queryKey)]
         /\ (/\ ResumesAfterGet(i)
             /\ RecordHasTimestamp(inv[i].storedData)
             /\ now - inv[i].storedData.rec.timestamp <= MaxAge
             /\ inv[i].storedData.rec.buster = inv[i].buster) =>
                /\ inv'[i].pc = "done"
                /\ inv'[i].result =
                       Resolved(StateData(inv[i].storedData.rec.state), "persisted")
                /\ ~HasOp(inv'[i], "queryFn")
         /\ inv[i].pc = "done" => inv'[i].ops = inv[i].ops
      ]_vars

C1_Witness ==
    \E i \in Invocations :
        /\ inv[i].pc = "done"
        /\ inv[i].cached = "undefined"
        /\ inv[i].result = Resolved("d1", "persisted")
        /\ inv[i].storedData.rec.timestamp = now - MaxAge
        /\ OpNames(inv[i]) = <<"getItem", "build">>

\* ------------------------------------------------------------------ C2
\* C2: when what the lookup read is a record older than maxAge, removeItem is
\* called; once it is done the entry is gone and the query function is called
\* exactly once; when that resolves, a record carrying the time of the write
\* and the configured buster is handed to setItem, and lands under the hash.
C2_ExpiredRecordIsReplaced ==
    [][\A i \in Invocations :
         /\ (/\ ResumesAfterGet(i)
             /\ RecordHasTimestamp(inv[i].storedData)
             /\ now - inv[i].storedData.rec.timestamp > MaxAge) =>
                /\ inv'[i].pc = "removeItem"
                /\ OpNames(inv'[i]) = <<"getItem", "removeItem">>
         /\ AfterRemoval(i)
         /\ (inv[i].remove = "done" /\ inv[i].pc = "queryFn"
                 /\ inv'[i].fetch = "ok" /\ inv'[i].setItem # "threw") =>
                /\ OpNames(inv'[i]) = <<"getItem", "removeItem", "queryFn", "setItem">>
                /\ inv'[i].written.rec.timestamp = now
                /\ inv'[i].written.rec.buster = inv[i].buster
         /\ (inv[i].setItem = "pending" /\ inv'[i].setItem = "done") =>
                store'[inv[i].queryHash] = inv[i].written
      ]_vars

C2_Witness ==
    \E i \in Invocations :
        /\ RecordHasTimestamp(inv[i].storedData)
        /\ inv[i].storedData.rec.buster = inv[i].buster
        /\ inv[i].setItem = "done"
        /\ OpNames(inv[i]) = <<"getItem", "removeItem", "queryFn", "setItem">>
        /\ store[inv[i].queryHash] = inv[i].written
        /\ inv[i].written.rec.timestamp > inv[i].storedData.rec.timestamp + MaxAge

\* ------------------------------------------------------------------ C3
\* C3: when what the lookup read is a record whose buster is not the
\* configured one, whatever its age, removeItem is called, the entry is gone
\* once it is done, the query function is called exactly once and the
\* record's data is not what the invocation resolves to: a record is only
\* ever served to a wrapper configured with the record's buster.
C3_BustedRecordIsDiscarded ==
    [][\A i \in Invocations :
         /\ (/\ ResumesAfterGet(i)
             /\ IsRecord(inv[i].storedData)
             /\ inv[i].storedData.rec.buster # inv[i].buster) =>
                /\ inv'[i].pc = "removeItem"
                /\ OpNames(inv'[i]) = <<"getItem", "removeItem">>
                /\ inv'[i].result.kind = "pending"
         /\ AfterRemoval(i)
         /\ inv'[i].result.from = "persisted" =>
                inv'[i].storedData.rec.buster = inv'[i].buster
      ]_vars

C3_Witness ==
    \E i \in Invocations :
        /\ RecordHasTimestamp(inv[i].storedData)
        /\ inv[i].storedData.rec.buster # inv[i].buster
        /\ inv[i].storedData.rec.timestamp = now
        /\ inv[i].remove = "done"
        /\ inv[i].result.from = "queryFn"
        /\ store[inv[i].queryHash] = Absent

\* ------------------------------------------------------------------ C4
\* C4: when what the lookup read is a record without a timestamp, removeItem
\* is called, the entry is gone once it is done and the query function is
\* called; the record's data is not returned and no query is built from it.
C4_RecordWithoutTimestampIsDiscarded ==
    [][\A i \in Invocations :
         /\ (/\ ResumesAfterGet(i)
             /\ IsRecord(inv[i].storedData)
             /\ ~RecordHasTimestamp(inv[i].storedData)) =>
                /\ inv'[i].pc = "removeItem"
                /\ OpNames(inv'[i]) = <<"getItem", "removeItem">>
         /\ AfterRemoval(i)
         /\ (inv'[i].result.from = "persisted" \/ inv'[i].built # <<>>) =>
                RecordHasTimestamp(inv'[i].storedData)
      ]_vars

C4_Witness ==
    \E i \in Invocations :
        /\ IsRecord(inv[i].storedData)
        /\ ~RecordHasTimestamp(inv[i].storedData)
        /\ inv[i].storedData.rec.buster = inv[i].buster
        /\ inv[i].remove = "done"
        /\ inv[i].fetch = "ok"
        /\ inv[i].built = <<>>

\* ------------------------------------------------------------------ C5
\* C5: without a storage medium every invocation calls the query function
\* once and nothing else, settles as the query function did, and the medium
\* is left as it was, whatever the in-memory cache holds.
C5_NoStorageNoStorageOperation ==
    [][storage = "null" =>
         /\ store' = store
         /\ \A i \in Invocations :
              /\ inv'[i].pc # "idle" => OpNames(inv'[i]) = <<"queryFn">>
              /\ inv'[i].setItem = "none" /\ inv'[i].remove = "none"
              /\ inv'[i].built = <<>>
              /\ inv'[i].pc = "done" =>
                     \/ /\ inv'[i].fetch = "ok"
                        /\ inv'[i].result =
                               Resolved(inv'[i].queryFnResult, "queryFn")
                     \/ /\ inv'[i].fetch = "failed"
                        /\ inv'[i].result = Rejected("FetchError", "queryFn")
      ]_vars

C5_Witness ==
    /\ storage = "null"
    /\ \E i \in Invocations :
           /\ inv[i].pc = "done"
           /\ inv[i].cached = "undefined"
           /\ inv[i].result = Resolved("d2", "queryFn")
           /\ IsRecord(store[inv[i].queryHash])

\* ------------------------------------------------------------------ C6
\* C6: when the query function resolves and there is a storage medium (and
\* the setItem call itself returns), the invocation hands to setItem, under
\* the query hash, the serialized record whose state.data is the result,
\* whose state is success-shaped with the bookkeeping fields at their
\* defaults, whose queryKey and queryHash are the invocation's, whose
\* timestamp is the time of the call and whose buster is the configured one;
\* the write lands under the query hash; the invocation resolves to the result.
SuccessShaped(st, t) ==
    /\ st.status = "success" /\ st.fetchStatus = "idle"
    /\ st.dataUpdateCount = 0 /\ st.dataUpdatedAt = t
    /\ st.error = "null" /\ st.errorUpdateCount = 0 /\ st.errorUpdatedAt = 0
    /\ st.fetchFailureCount = 0 /\ st.fetchFailureReason = "null"
    /\ st.fetchMeta = "null" /\ st.isInvalidated = FALSE

C6_FetchResultIsPersisted ==
    [][\A i \in Invocations :
         /\ (/\ inv[i].pc = "queryFn" /\ inv'[i].fetch = "ok"
             /\ storage = "medium" /\ inv'[i].setItem # "threw") =>
                /\ inv'[i].pc = "done"
                /\ inv'[i].result = Resolved(inv'[i].queryFnResult, "queryFn")
                /\ inv'[i].setItem = "pending"
                /\ inv'[i].ops = Append(inv[i].ops, Op("setItem", hashKey(inv[i].queryKey)))
                /\ inv'[i].persisted.state.data = inv'[i].queryFnResult
                /\ SuccessShaped(inv'[i].persisted.state, now)
                /\ inv'[i].persisted.queryKey = inv[i].queryKey
                /\ inv'[i].persisted.queryHash = hashKey(inv[i].queryKey)
                /\ inv'[i].persisted.timestamp = now
                /\ inv'[i].persisted.buster = inv[i].buster
                /\ DOMAIN inv'[i].persisted =
                       {"state", "queryKey", "queryHash", "timestamp", "buster"}
                /\ inv'[i].written = serialize(inv'[i].persisted)
         /\ (inv[i].setItem = "pending" /\ inv'[i].setItem = "done") =>
                /\ store'[hashKey(inv[i].queryKey)] = inv[i].written
                /\ inv'[i].result = inv[i].result
      ]_vars

C6_Witness ==
    \E i \in Invocations :
        /\ storage = "medium"
        /\ inv[i].fetch = "ok"
        /\ inv[i].setItem = "done"
        /\ inv[i].result = Resolved("d2", "queryFn")
        /\ inv[i].buster = "v2"
        /\ store[inv[i].queryHash] = inv[i].written
        /\ inv[i].written.rec.state.data = "d2"
        /\ inv[i].written.rec.timestamp = MaxTime

\* ------------------------------------------------------------------ C7
\* C7: when the query function fails the invocation rejects with that
\* failure: the query function was called once, setItem is not called, no
\* persisted data is returned, the invocation takes no further step, and
\* an entry only ever appears in the medium through the setItem of an
\* invocation whose query function resolved.
C7_FetchFailurePropagates ==
    [][\A i \in Invocations :
         /\ inv'[i].fetch = "failed" =>
                /\ inv'[i].pc = "done"
                /\ inv'[i].result = Rejected("FetchError", "queryFn")
                /\ CountOp(inv'[i], "queryFn") = 1
                /\ ~HasOp(inv'[i], "setItem")
                /\ inv'[i].setItem = "none"
                /\ inv'[i].written = Absent
         /\ inv[i].fetch = "failed" => inv'[i] = inv[i]
         /\ store'[hashKey(inv[i].queryKey)] # store[hashKey(inv[i].queryKey)]
              /\ store'[hashKey(inv[i].queryKey)] # Absent =>
                \E j \in Invocations :
                    /\ inv[j].fetch = "ok"
                    /\ inv[j].setItem = "pending" /\ inv'[j].setItem = "done"
      ]_vars

C7_Witness ==
    \E i \in Invocations :
        /\ inv[i].fetch = "failed"
        /\ inv[i].remove = "done"
        /\ IsRecord(inv[i].storedData)
        /\ store[inv[i].queryHash] = Absent
        /\ inv[i].result.kind = "rejected"

\* ------------------------------------------------------------------ C8
\* C8: a storage operation of an invocation that fails (getItem, removeItem
\* or setItem) makes the invocation reject with that failure.
C8_StorageFailurePropagates ==
    \A i \in Invocations :
        (\/ inv[i].result.from = "getItem"
         \/ inv[i].remove = "failed"
         \/ inv[i].setItem \in {"threw", "rejected"}) =>
            /\ inv[i].result.kind = "rejected"
            /\ inv[i].result.value = "StorageError"

\* ------------------------------------------------------------------ C9
\* C9: a stored value that is not a valid record never makes the invocation
\* fail: the invocation that read it goes on to removeItem and to the query
\* function.
C9_MalformedValueIsNeverFatal ==
    \A i \in Invocations :
        (/\ inv[i].pc \notin {"idle", "getItem"}
         /\ HasOp(inv[i], "getItem")
         /\ inv[i].result.from # "getItem"
         /\ inv[i].storedData.t \in {"garbage", "null"}) =>
            /\ inv[i].result.from # "deserialize"
            /\ HasOp(inv[i], "removeItem")

\* ------------------------------------------------------------------ C10
\* C10: when the query cache holds a value for the identity, falsy values
\* included, the invocation does no getItem, no removeItem and no build and
\* its first operation is the call of the query function.
C10_CachedValueSkipsStorage ==
    \A i \in Invocations :
        (inv[i].pc # "idle" /\ inv[i].cached # "undefined") =>
            /\ OpNames(inv[i])[1] = "queryFn"
            /\ ~HasOp(inv[i], "getItem")
            /\ ~HasOp(inv[i], "removeItem")
            /\ ~HasOp(inv[i], "build")

\* ------------------------------------------------------------------ C11
\* C11: an invocation does not settle before every storage operation it
\* started has completed: when an invocation that called setItem is done, the
\* write is no longer in flight and the medium has received its record.
C11_SettlesAfterStorageOperations ==
    \A i \in Invocations :
        (inv[i].pc = "done" /\ inv[i].result.kind = "resolved"
             /\ HasOp(inv[i], "setItem")) =>
            inv[i].setItem = "done"

\* ------------------------------------------------------------------ C12
\* C12: nothing keeps two invocations for the same identity apart: both may
\* read nothing, both call the query function and both call setItem (the
\* witness); whenever a write lands it replaces what the medium holds under
\* the hash, so that after two such invocations the medium holds the record
\* of the write that landed last.
BothMissed(i, j) ==
    /\ i # j
    /\ inv[i].queryKey = inv[j].queryKey
    /\ OpNames(inv[i]) = <<"getItem", "queryFn", "setItem">>
    /\ OpNames(inv[j]) = <<"getItem", "queryFn", "setItem">>
    /\ ~StoredDataPresent(inv[i].storedData)
    /\ ~StoredDataPresent(inv[j].storedData)

C12_LastWriteWins ==
    [][\A i \in Invocations : \A j \in Invocations :
         /\ (inv[i].setItem = "pending" /\ inv'[i].setItem = "done") =>
                store'[inv[i].queryHash] = inv[i].written
         /\ (/\ BothMissed(i, j)
             /\ inv[j].setItem = "done"
             /\ inv[i].setItem = "pending" /\ inv'[i].setItem = "done") =>
                /\ store[inv[i].queryHash] = inv[j].written
                /\ store'[inv[i].queryHash] = inv[i].written
      ]_vars

C12_Witness ==
    \E i \in Invocations : \E j \in Invocations :
        /\ BothMissed(i, j)
        /\ i < j
        /\ inv[i].setItem = "done" /\ inv[j].setItem = "done"
        /\ inv[i].written # inv[j].written
        /\ store[inv[i].queryHash] = inv[i].written

\* ------------------------------------------------------------------ C13
\* C13: an invocation that returns persisted data leaves the medium as it
\* is: the step that serves the record changes no entry, the invocation
\* calls neither setItem nor removeItem, before or after, and it builds the
\* query exactly once, from the state of the record it read, under its own
\* query key and hash.
C13_HitLeavesStorageUnchanged ==
    [][\A i \in Invocations :
         /\ (inv[i].result.from # "persisted" /\ inv'[i].result.from = "persisted") =>
                /\ store' = store
                /\ OpNames(inv'[i]) = <<"getItem", "build">>
                /\ inv'[i].built =
                       << [ queryKey |-> inv[i].queryKey,
                            queryHash |-> hashKey(inv[i].queryKey),
                            state |-> inv[i].storedData.rec.state ] >>
                /\ inv'[i].setItem = "none" /\ inv'[i].remove = "none"
         /\ inv[i].result.from = "persisted" => inv'[i] = inv[i]
         /\ Len(inv'[i].built) <= 1
         /\ inv'[i].built # <<>> => inv'[i].result.from = "persisted"
      ]_vars

C13_Witness ==
    \E i \in Invocations :
        /\ inv[i].result = Resolved("d1", "persisted")
        /\ Len(inv[i].built) = 1
        /\ store[inv[i].queryHash] = inv[i].storedData
        /\ inv[i].storedData.rec.timestamp = 1
        /\ now = MaxTime

\* ------------------------------------------------------------------ C14
\* a stored string that an invocation configured with buster b may remove at
\* time t: a record that is expired, version-mismatched or without timestamp
Stale(s, t, b) ==
    /\ IsRecord(s)
    /\ \/ ~RecordHasTimestamp(s)
       \/ s.rec.buster # b
       \/ t - s.rec.timestamp > MaxAge

\* the step removes the entry held under the hash of invocation i
Removes(i) ==
    /\ inv[i].pc = "removeItem" /\ inv'[i].remove = "done"
    /\ store[inv[i].queryHash] # Absent
    /\ store'[inv[i].queryHash] = Absent

\* C14 as stated: whenever an entry is removed, the entry the medium holds
\* at that moment is expired, version-mismatched or without timestamp.
C14_OnlyStaleRecordsAreRemoved ==
    [][\A i \in Invocations :
         Removes(i) => Stale(store[inv[i].queryHash], now, inv[i].buster)
      ]_vars

\* C14 amended: an entry disappears from the medium only through the
\* removeItem of an invocation for that key, and the record that invocation
\* READ is expired, version-mismatched or without timestamp; what is removed
\* is whatever the medium holds under the hash when the removal lands.
C14_RemovalFollowsAStaleRead ==
    [][\A h \in Hashes :
         (store[h] # Absent /\ store'[h] = Absent) =>
             \E i \in Invocations :
                 /\ inv[i].queryHash = h
                 /\ Removes(i)
                 /\ Stale(inv[i].storedData, now, inv[i].buster)
      ]_vars

C14_Witness ==
    \E i \in Invocations : \E j \in Invocations :
        /\ i # j
        /\ inv[i].queryHash = inv[j].queryHash
        /\ inv[i].buster = inv[j].buster
        /\ inv[i].remove = "done"
        /\ inv[j].setItem = "done"
        /\ inv[j].written.rec.timestamp = now
        /\ inv[i].setItem = "none"
        /\ store[inv[i].queryHash] = Absent

\* ------------------------------------------------------------------ C15
\* C15: in every reachable state, every string an invocation has handed to
\* setItem, and so every entry that a write of the wrapper has put in the
\* medium, is a complete record: it has a timestamp that is not later than
\* the current time, the buster of the invocation that wrote it and a state
\* of status success; the invocation that wrote it had a resolved fetch.
CompleteRecord(s, b) ==
    /\ IsRecord(s)
    /\ {"state", "queryKey", "queryHash", "timestamp", "buster"} \subseteq DOMAIN s.rec
    /\ s.rec.timestamp >= 1 /\ s.rec.timestamp <= now
    /\ s.rec.buster = b
    /\ "status" \in DOMAIN s.rec.state /\ s.rec.state.status = "success"

C15_WrittenRecordsAreComplete ==
    /\ \A i \in Invocations :
           /\ inv[i].setItem # "none" =>
                  /\ inv[i].fetch = "ok"
                  /\ CompleteRecord(inv[i].written, inv[i].buster)
           /\ inv[i].setItem = "none" => inv[i].written = Absent
           /\ inv[i].fetch # "ok" => inv[i].setItem = "none"
    /\ \A h \in Hashes :
           \/ store[h] \in UNION {InitItems(k) : k \in QueryKeys}
           \/ \E i \in Invocations :
                  /\ inv[i].setItem = "done"
                  /\ hashKey(inv[i].queryKey) = h
                  /\ store[h] = inv[i].written

C15_Witness ==
    \E i \in Invocations :
        /\ inv[i].setItem = "done"
        /\ store[inv[i].queryHash] = inv[i].written
        /\ inv[i].written.rec.timestamp = now
        /\ inv[i].written.rec.buster = "v2"
        /\ \E j \in Invocations : inv[j].fetch = "failed" /\ inv[j].queryKey = inv[i].queryKey

\* ------------------------------------------------------------------ C16
\* C16: the operations of one invocation come in a fixed order, each at most
\* once: getItem, then removeItem, then the query function, then setItem;
\* removeItem never follows the query function, setItem is only called after
\* the query function has resolved, and no invocation both builds the query
\* and calls setItem.
Position(r, name) ==
    IF HasOp(r, name)
    THEN CHOOSE n \in DOMAIN r.ops : r.ops[n].op = name
    ELSE 0

Before(r, a, b) ==
    (HasOp(r, a) /\ HasOp(r, b)) => Position(r, a) < Position(r, b)

C16_OperationsInFixedOrder ==
    \A i \in Invocations :
        LET r == inv[i] IN
        /\ \A name \in {"getItem", "removeItem", "queryFn", "setItem", "build"} :
               CountOp(r, name) <= 1
        /\ Before(r, "getItem", "removeItem")
        /\ Before(r, "getItem", "queryFn")
        /\ Before(r, "getItem", "build")
        /\ Before(r, "removeItem", "queryFn")
        /\ Before(r, "queryFn", "setItem")
        /\ HasOp(r, "removeItem") => HasOp(r, "getItem")
        /\ HasOp(r, "setItem") => (HasOp(r, "queryFn") /\ r.fetch = "ok")
        /\ ~(HasOp(r, "setItem") /\ HasOp(r, "build"))
        /\ ~(HasOp(r, "queryFn") /\ HasOp(r, "build"))

C16_Witness ==
    \E i \in Invocations :
        /\ OpNames(inv[i]) = <<"getItem", "removeItem", "queryFn", "setItem">>
        /\ inv[i].setItem = "done"
        /\ \E j \in Invocations : OpNames(inv[j]) = <<"getItem", "build">>

\* ------------------------------------------------------------------ C17
\* invocation j, with no in-memory value and the buster of invocation i, has
\* read the record that the landed write of invocation i put in the medium
ReadsWriteOf(j, i) ==
    /\ i # j
    /\ inv[i].fetch = "ok" /\ inv[i].setItem = "done"
    /\ inv[j].queryKey = inv[i].queryKey
    /\ inv[j].buster = inv[i].buster
    /\ inv[j].cached = "undefined"
    /\ HasOp(inv[j], "getItem")
    /\ inv[j].storedData = inv[i].written

\* C17 as stated: an invocation started no more than maxAge after the write
\* whose record it reads returns exactly the data that was fetched, and does
\* not call the query function.
C17_RoundTripReturnsFetchedData ==
    \A i \in Invocations : \A j \in Invocations :
        (/\ ReadsWriteOf(j, i)
         /\ inv[j].startAt - inv[i].setAt <= MaxAge
         /\ inv[j].pc # "getItem"
         /\ inv[j].result.from # "getItem") =>
            /\ inv[j].pc = "done"
            /\ inv[j].result = Resolved(inv[i].queryFnResult, "persisted")
            /\ ~HasOp(inv[j], "queryFn")

\* what a data value is after JSON.stringify and JSON.parse
AfterJson(v) == IF v = "NaN" THEN "null" ELSE v

\* C17 amended: an invocation that RESUMES after its read no more than
\* maxAge after the write whose record it read returns the fetched data as
\* the JSON encoding gives it back (the data itself unless the encoding
\* changes it, as it does NaN), and does not call the query function.
C17_RoundTripReturnsDecodedData ==
    [][\A i \in Invocations : \A j \in Invocations :
         (/\ ReadsWriteOf(j, i)
          /\ ResumesAfterGet(j)
          /\ now - inv[i].setAt <= MaxAge) =>
             /\ inv'[j].pc = "done"
             /\ inv'[j].result =
                    Resolved(AfterJson(inv[i].queryFnResult), "persisted")
             /\ ~HasOp(inv'[j], "queryFn")
      ]_vars

C17_Witness ==
    \E i \in Invocations : \E j \in Invocations :
        /\ ReadsWriteOf(j, i)
        /\ inv[i].queryFnResult = "NaN"
        /\ inv[j].result = Resolved("null", "persisted")

\* ------------------------------------------------------------------ C18
\* the invocations for the key of hash h that have called the query function
Fetchers(h) ==
    {i \in Invocations : inv[i].queryHash = h /\ inv[i].fetch # "none"}

\* all of them have returned and their writes have landed
Settled(h) ==
    /\ Fetchers(h) # {}
    /\ \A i \in Fetchers(h) : inv[i].pc = "done" /\ inv[i].setItem = "done"

\* the medium holds under h the record one of them wrote, with its buster
HoldsWrittenRecord(h) ==
    \E i \in Fetchers(h) :
        /\ store[h] = inv[i].written
        /\ IsRecord(store[h])
        /\ store[h].rec.buster = inv[i].buster

\* C18: with a storage medium, no failing operation and fair scheduling,
\* once invocations for a key have called the query function, eventually
\* all of them have returned, their writes have landed and the medium holds
\* under the hash the record one of them wrote: the entry is not empty.
C18_EventuallyPersisted ==
    \A h \in Hashes :
        (Fetchers(h) # {}) ~> (Settled(h) /\ HoldsWrittenRecord(h))

C18_Witness ==
    \E i \in Invocations : \E j \in Invocations :
        /\ i # j
        /\ Fetchers(inv[i].queryHash) = {i, j}
        /\ Settled(inv[i].queryHash)
        /\ inv[i].remove = "done"
        /\ store[inv[i].queryHash] = inv[j].written
        /\ inv[i].written # inv[j].written

\* ------------------------------------------------------------------ C19
\* C19: an invocation reads, removes and writes only under the hash of its
\* own query key: every operation it logs carries that hash, what it reads
\* is the entry under that hash, and a step changes the entry of a hash only
\* if the invocation that takes the step was called with the key of that
\* hash; on every path the entries of the other hashes stay as they are.
C19_KeyIsolation ==
    [][/\ \A i \in Invocations :
            /\ \A n \in DOMAIN inv'[i].ops :
                   inv'[i].ops[n].key = hashKey(inv'[i].queryKey)
            /\ (inv[i].pc = "idle" /\ inv'[i].pc = "getItem") =>
                   inv'[i].storedData = store[hashKey(inv'[i].queryKey)]
            /\ inv'[i] # inv[i] =>
                   \A h \in Hashes \ {hashKey(inv'[i].queryKey)} :
                       store'[h] = store[h]
       /\ \A h \in Hashes :
            store'[h] # store[h] =>
                \E i \in Invocations :
                    /\ inv'[i] # inv[i]
                    /\ hashKey(inv[i].queryKey) = h
      ]_vars

C19_Witness ==
    \E i \in Invocations : \E j \in Invocations : \E h \in Hashes :
        /\ h # inv[i].queryHash /\ h # inv[j].queryHash
        /\ i # j
        /\ inv[i].remove = "done" /\ inv[i].setItem = "done"
        /\ inv[j].fetch = "failed" /\ inv[j].remove = "done"
        /\ store[inv[i].queryHash] = inv[i].written
        /\ IsRecord(store[h])

====
